---- MODULE Spec2Model ----
(***************************************************************************)
(* Model of the chat relay of src/main.rs: one acceptor loop, one session  *)
(* task per accepted connection, one tokio broadcast channel shared by     *)
(* all sessions.  Each session races `reader.read_line(&mut line)` against *)
(* `rx.recv()` in a `tokio::select!`.                                      *)
(*                                                                         *)
(* Bytes are small integers.  A message is the tuple sent on the channel,  *)
(* (line, addr).  A session is one connection and its task; it is named by *)
(* a number, in no relation to its peer address: two sessions may have     *)
(* the same address, and both may run when a client connects again before  *)
(* the task of its earlier connection has seen the end of that one.        *)
(***************************************************************************)
EXTENDS Integers, Sequences, FiniteSets, TLC

\* ------------------------------------------------------------ constants
\* The newline byte that read_line looks for.
NL == 10
\* broadcast::channel(10)
Capacity == 10

\* ------------------------------------------------------------ bounds
\* Bytes sent by both clients together (specification Spec).
MaxBytes == 3
\* Lines sent by the clients together (specification SpecTrio).
MaxTrioLines == 1
\* Lines sent by the talking client (specifications SpecLag, SpecSolo).
MaxLagLines == 18
\* Lines the talker of SpecFan sends.
MaxFanLines == 3

\* The sessions (connections) of a run.
Peers == {1, 2, 3}
\* The sessions of the two-connection specifications.
Duo == {1, 2}

\* Peer addresses of the three connections of SpecTrio: the third comes
\* from the address of the first.
TrioAddr == <<1, 2, 1>>

\* What arrives from a client in one piece: the byte 'a', a newline, or the
\* byte 0xFF, which no UTF-8 text contains (longer pieces are runs of these
\* with no step of the server in between).
Chunks == {<<97>>, <<NL>>, <<255>>}

VARIABLES
    status,   \* session -> "none" | "pending" (connected, waiting for accept) | "live"
              \*   | "eof" | "readerr" | "writeerr" | "lagged" | "senderr"
              \*   | "aborted" (the process ended under the session)
    addr,     \* session -> peer address of the connection (0: not connected yet)
    backlog,  \* connections waiting in the listener's queue, oldest first
    ready,    \* the listener counts as readable: the acceptor calls accept
              \*   without waiting (set by an arriving connection, cleared when
              \*   accept finds nothing)
    pc,       \* session -> "select" (racing read_line and recv) | "write" (in write_all)
    next,     \* session -> position of the session's Receiver in the channel
    got,      \* session -> the value recv returned, while it is being written (else NoMsg)
    wpos,     \* session -> bytes of got that write_all has written so far
    line,     \* session -> the String `line`
    acc,      \* session -> bytes held by the pending read_line future
    sockIn,   \* session -> bytes that arrived from the client and are not yet consumed
    cliOpen,  \* session -> the connection is open and the client has not closed its end
    written,  \* session -> what was written to the socket, one record [idx, line, addr]
              \*   per message, line being the bytes of it written so far
    log,      \* every message sent on the channel, in send order; `by` is the
              \*   sending session (history)
    sent,     \* session -> every byte the client sent (history)
    subAt,    \* session -> channel tail when the Receiver was created (history)
    endAt,    \* session -> channel tail when the session task ended (history)
    serving   \* main is in its accept loop (its listener, its Sender and its
              \*   Receiver `_rx` exist)

vars == <<status, addr, backlog, ready, pc, next, got, wpos, line, acc, sockIn, cliOpen, written,
          log, sent, subAt, endAt, serving>>

\* ------------------------------------------------------------ helpers
\* No value is held.
NoMsg == [idx |-> 0, line |-> <<>>, addr |-> 0]

RECURSIVE NextPowerOfTwoFrom(_, _)
NextPowerOfTwoFrom(p, n) == IF p >= n THEN p ELSE NextPowerOfTwoFrom(2 * p, n)

\* tokio's broadcast channel rounds the requested capacity up to a power of
\* two; that is the number of slots of its ring buffer.
BufLen == NextPowerOfTwoFrom(1, Capacity)

\* Number of values sent so far (the channel's tail position).
TailPos == Len(log)

\* Position of the first newline of bytes b, 0 if none.
RECURSIVE FindNLFrom(_, _)
FindNLFrom(b, i) ==
    IF i > Len(b) THEN 0
    ELSE IF b[i] = NL THEN i
    ELSE FindNLFrom(b, i + 1)

FindNL(b) == FindNLFrom(b, 1)

\* bytes b, from position i on, are well-formed UTF-8 (what
\* String::from_utf8 accepts; read_line fails with InvalidData otherwise).
RECURSIVE Utf8ValidFrom(_, _)
Utf8ValidFrom(b, i) ==
    IF i > Len(b) THEN TRUE
    ELSE LET c == b[i]
             Cont(j, lo, hi) == j <= Len(b) /\ b[j] >= lo /\ b[j] <= hi
         IN IF c <= 127 THEN Utf8ValidFrom(b, i + 1)
            ELSE IF c >= 194 /\ c <= 223
            THEN Cont(i + 1, 128, 191) /\ Utf8ValidFrom(b, i + 2)
            ELSE IF c = 224
            THEN Cont(i + 1, 160, 191) /\ Cont(i + 2, 128, 191) /\ Utf8ValidFrom(b, i + 3)
            ELSE IF (c >= 225 /\ c <= 236) \/ c = 238 \/ c = 239
            THEN Cont(i + 1, 128, 191) /\ Cont(i + 2, 128, 191) /\ Utf8ValidFrom(b, i + 3)
            ELSE IF c = 237
            THEN Cont(i + 1, 128, 159) /\ Cont(i + 2, 128, 191) /\ Utf8ValidFrom(b, i + 3)
            ELSE IF c = 240
            THEN /\ Cont(i + 1, 144, 191) /\ Cont(i + 2, 128, 191) /\ Cont(i + 3, 128, 191)
                 /\ Utf8ValidFrom(b, i + 4)
            ELSE IF c >= 241 /\ c <= 243
            THEN /\ Cont(i + 1, 128, 191) /\ Cont(i + 2, 128, 191) /\ Cont(i + 3, 128, 191)
                 /\ Utf8ValidFrom(b, i + 4)
            ELSE IF c = 244
            THEN /\ Cont(i + 1, 128, 143) /\ Cont(i + 2, 128, 191) /\ Cont(i + 3, 128, 191)
                 /\ Utf8ValidFrom(b, i + 4)
            ELSE FALSE

Utf8Valid(b) == Utf8ValidFrom(b, 1)

\* (variant: the Receiver is not moved into the session task, which holds
\* none: only main's counts)
ReceiverCountMainOnly == IF serving THEN 1 ELSE 0

\* Receivers alive: `_rx` of main, kept until main panics, and the handle
\* of every running session.
ReceiverCount ==
    (IF serving THEN 1 ELSE 0) + Cardinality({s \in Peers : status[s] = "live"})

\* (variant: the task goes on after its loop was left)
NotNone(s) == status[s] # "none"

\* The session task of s is running.
Live(s) == status[s] = "live"

\* The connection of s exists on the server's side: it waits for accept or
\* its session task is running.
Connected(s) == status[s] \in {"pending", "live"}

\* ------------------------------------------------------------ pure steps of the code
\* (variant: a Receiver that starts at the oldest value ever sent)
SubscribeFromStart(tail) == 0

\* tx.subscribe(): the new Receiver starts at the tail.
SubscribePos(tail) == tail

\* (variant: the zero-length test is missing)
NeverZeroRead(n) == FALSE

\* `if result.unwrap() == 0 { break; }`
IsZeroRead(n) == n = 0

\* line.clear()
LineClear(l) == <<>>

\* (variant: the address test is missing)
WriteAlways(own, other) == TRUE

\* `if addr != other_addr`
ShouldWrite(own, other) == own # other

\* (variant: the Receiver's position does not move)
StayNext(n) == n

\* The Receiver's position after taking one value.
AdvanceNext(n) == n + 1

\* (variant: the ring is indexed from the tail instead of from the head)
RecvFromTail(n) ==
    [idx |-> Len(log) - n, line |-> log[Len(log) - n].line, addr |-> log[Len(log) - n].addr]

\* (variant: the newest slot is returned in place of the oldest unseen one)
RecvNewest(n) == [idx |-> n + 1, line |-> log[Len(log)].line, addr |-> log[Len(log)].addr]

\* The value a Receiver at position n takes: the oldest it has not seen.
\* idx, its place in the send order, is history information.
RecvValue(n) == [idx |-> n + 1, line |-> log[n + 1].line, addr |-> log[n + 1].addr]

\* (variant: a bounded queue whose send waits while a receiver still has
\* the oldest slot to read)
CanSendBounded(s) == \A t \in Peers : status[t] = "live" => Len(log) - next[t] < BufLen

\* Sender::send never waits for receivers: it overwrites the oldest slot.
CanSend(s) == TRUE

\* tokio::spawn returns at once and nothing between accept and spawn
\* awaits: the loop is back at listener.accept() whatever the sessions do.
AcceptorAtAccept == TRUE

\* select! without `biased;` polls its branches in random order: a ready
\* branch can complete whatever the state of the other branch.
SelectTakes(s, arm) == TRUE

\* (variant: the ring holds half the slots)
IsLaggedHalf(n, tail) == tail - n > BufLen \div 2

\* The Receiver at position n has been overrun: more than BufLen values
\* were sent since.
IsLagged(n, tail) == tail - n > BufLen

\* A session task ending (break, or a panic from unwrap) ends that task only.
EndSession(s, why) == [status EXCEPT ![s] = why]

\* ------------------------------------------------------------ actions
Init ==
    /\ status = [s \in Peers |-> "none"]
    /\ addr = [s \in Peers |-> 0]
    /\ backlog = <<>>
    /\ ready = FALSE
    /\ pc = [s \in Peers |-> "select"]
    /\ next = [s \in Peers |-> 0]
    /\ got = [s \in Peers |-> NoMsg]
    /\ wpos = [s \in Peers |-> 0]
    /\ line = [s \in Peers |-> <<>>]
    /\ acc = [s \in Peers |-> <<>>]
    /\ sockIn = [s \in Peers |-> <<>>]
    /\ cliOpen = [s \in Peers |-> FALSE]
    /\ written = [s \in Peers |-> <<>>]
    /\ log = <<>>
    /\ sent = [s \in Peers |-> <<>>]
    /\ subAt = [s \in Peers |-> 0]
    /\ endAt = [s \in Peers |-> 0]
    /\ serving = TRUE

\* A client connects from address a: the connection, named s from here on,
\* waits in the listener's queue.  TCP has one open connection per peer
\* address: an earlier connection from a is closed on the client's side,
\* whether or not its session task has seen that.
ClientConnect(s, a) ==
    /\ serving
    /\ status[s] = "none"
    /\ \A t \in Peers : addr[t] = a /\ status[t] \in {"pending", "live"} => ~cliOpen[t]
    /\ status' = [status EXCEPT ![s] = "pending"]
    /\ addr' = [addr EXCEPT ![s] = a]
    /\ cliOpen' = [cliOpen EXCEPT ![s] = TRUE]
    /\ backlog' = Append(backlog, s)
    /\ ready' = TRUE
    /\ UNCHANGED <<pc, next, got, wpos, line, acc, sockIn, written, log, sent, subAt, endAt,
                   serving>>

\* listener.accept() returns Ok with the oldest waiting connection, s;
\* tx.clone(); tx.subscribe(); tokio::spawn(...).  The loop looks at no
\* running session.
Accept(s) ==
    /\ serving
    /\ AcceptorAtAccept
    /\ backlog # <<>>
    /\ s = Head(backlog)
    /\ backlog' = Tail(backlog)
    /\ status' = [status EXCEPT ![s] = "live"]
    /\ next' = [next EXCEPT ![s] = SubscribePos(TailPos)]
    /\ subAt' = [subAt EXCEPT ![s] = TailPos]
    /\ UNCHANGED <<addr, ready, pc, got, wpos, line, acc, sockIn, cliOpen, written, log, sent,
                   endAt, serving>>

\* listener.accept() finds no connection waiting: the listener stops
\* counting as readable and the acceptor waits for the next connection.
AcceptWait ==
    /\ serving
    /\ AcceptorAtAccept
    /\ ready
    /\ backlog = <<>>
    /\ ready' = FALSE
    /\ UNCHANGED <<status, addr, backlog, pc, next, got, wpos, line, acc, sockIn, cliOpen,
                   written, log, sent, subAt, endAt, serving>>

\* The client of a connection sends a chunk of bytes.
ClientSend(s, chunk) ==
    /\ Connected(s)
    /\ cliOpen[s]
    /\ sockIn' = [sockIn EXCEPT ![s] = @ \o chunk]
    /\ sent' = [sent EXCEPT ![s] = @ \o chunk]
    /\ UNCHANGED <<status, addr, backlog, ready, pc, next, got, wpos, line, acc, cliOpen, written,
                   log, subAt, endAt, serving>>

\* The client closes (or loses) its end of the connection.
ClientClose(s) ==
    /\ Connected(s)
    /\ cliOpen[s]
    /\ cliOpen' = [cliOpen EXCEPT ![s] = FALSE]
    /\ UNCHANGED <<status, addr, backlog, ready, pc, next, got, wpos, line, acc, sockIn, written,
                   log, sent, subAt, endAt, serving>>

\* Session tasks end (break out of the loop, a panic from unwrap, or the end
\* of the process), st being the status of every session afterwards,
\* run telling whether the process goes on: everything an ended task owned
\* is dropped, the socket, the reader with its buffers, `line` and the
\* Receiver; the end of the process closes the listener and with it the
\* connections that wait there.
Dropped(st, run) ==
    LET Kept(t) == st[t] = "live" \/ (st[t] = "pending" /\ run)
    IN /\ status' = st
       /\ endAt' = [t \in Peers |-> IF Live(t) /\ st[t] # "live" THEN TailPos ELSE endAt[t]]
       /\ pc' = [t \in Peers |-> IF Kept(t) THEN pc[t] ELSE "select"]
       /\ next' = [t \in Peers |-> IF Kept(t) THEN next[t] ELSE 0]
       /\ got' = [t \in Peers |-> IF Kept(t) THEN got[t] ELSE NoMsg]
       /\ wpos' = [t \in Peers |-> IF Kept(t) THEN wpos[t] ELSE 0]
       /\ line' = [t \in Peers |-> IF Kept(t) THEN line[t] ELSE <<>>]
       /\ acc' = [t \in Peers |-> IF Kept(t) THEN acc[t] ELSE <<>>]
       /\ sockIn' = [t \in Peers |-> IF Kept(t) THEN sockIn[t] ELSE <<>>]
       /\ cliOpen' = [t \in Peers |-> Kept(t) /\ cliOpen[t]]

Teardown(s, why) == Dropped(EndSession(s, why), TRUE)

\* listener.accept() returns an error (no file descriptor left, connection
\* aborted, ...): unwrap panics in main, whose unwinding drops the listener
\* with the connections that wait there, the Sender `tx` and the Receiver
\* `_rx`.  The call is the loop's next accept, whoever is connected and
\* whether or not a connection waits.  The session tasks run on, on the
\* runtime's worker threads.
AcceptErr ==
    /\ serving
    /\ AcceptorAtAccept
    /\ ready
    /\ ready' = FALSE
    /\ serving' = FALSE
    /\ Dropped(status, FALSE)
    /\ UNCHANGED <<addr, backlog, written, log, sent, subAt>>

\* After the panic of main block_on returns and the runtime is dropped:
\* its worker threads drop the session tasks that still run, one after
\* another and each where it is; a task not yet dropped is still polled.
\* The process ends when none is left.
RuntimeShutdown(s) ==
    /\ ~serving
    /\ Live(s)
    /\ Dropped(EndSession(s, "aborted"), FALSE)
    /\ UNCHANGED <<addr, backlog, ready, written, log, sent, subAt, serving>>

\* read_line is polled and finds bytes but no newline: it moves them into
\* the future's own buffer and stays pending.
ReadPartial(s) ==
    /\ Live(s)
    /\ pc[s] = "select"
    /\ SelectTakes(s, "read")
    /\ sockIn[s] # <<>>
    /\ FindNL(sockIn[s]) = 0
    /\ acc' = [acc EXCEPT ![s] = @ \o sockIn[s]]
    /\ sockIn' = [sockIn EXCEPT ![s] = <<>>]
    /\ UNCHANGED <<status, addr, backlog, ready, pc, next, got, wpos, line, cliOpen, written, log,
                   sent, subAt, endAt, serving>>

\* read_line can complete: a newline arrived, or the stream ended.
ReadComplete(s) ==
    \/ FindNL(sockIn[s]) > 0
    \/ sockIn[s] = <<>> /\ ~cliOpen[s]

\* What `line` holds when read_line completes: its content before the call,
\* the bytes the future already took, and the bytes up to the newline.
ReadBytes(s) == line[s] \o acc[s] \o SubSeq(sockIn[s], 1, FindNL(sockIn[s]))

\* read_line completes with Ok: the bytes are UTF-8.  The select arm breaks
\* on a zero-length read; otherwise
\* tx.send((line.clone(), addr)).unwrap(); line.clear();
ReadLine(s) ==
    /\ Live(s)
    /\ pc[s] = "select"
    /\ SelectTakes(s, "read")
    /\ CanSend(s)
    /\ ReadComplete(s)
    /\ Utf8Valid(ReadBytes(s))
    /\ LET k == FindNL(sockIn[s])
           taken == SubSeq(sockIn[s], 1, k)
           n == Len(acc[s]) + Len(taken)
           full == ReadBytes(s)
       IN IF IsZeroRead(n)
          THEN /\ Teardown(s, "eof")
               /\ UNCHANGED log
          ELSE IF ReceiverCount = 0
          THEN /\ Teardown(s, "senderr")
               /\ UNCHANGED log
          ELSE /\ log' = Append(log, [line |-> full, addr |-> addr[s], by |-> s])
               /\ line' = [line EXCEPT ![s] = LineClear(full)]
               /\ sockIn' = [sockIn EXCEPT ![s] = SubSeq(@, k + 1, Len(@))]
               /\ acc' = [acc EXCEPT ![s] = <<>>]
               /\ UNCHANGED <<status, endAt, pc, next, got, wpos, cliOpen>>
    /\ UNCHANGED <<addr, backlog, ready, written, sent, subAt, serving>>

\* read_line completes with Err, on a broken connection or with bytes that
\* are not UTF-8 (InvalidData); unwrap panics the task.
ReadErr(s) ==
    /\ Live(s)
    /\ pc[s] = "select"
    /\ SelectTakes(s, "read")
    /\ \/ ~cliOpen[s]
       \/ ReadComplete(s) /\ ~Utf8Valid(ReadBytes(s))
    /\ Teardown(s, "readerr")
    /\ UNCHANGED <<addr, backlog, ready, written, log, sent, subAt, serving>>

\* rx.recv() completes first: the pending read_line future is dropped with
\* the bytes it holds.  A lagged Receiver yields Err(Lagged) and unwrap
\* panics the task; otherwise the value is taken and, unless its address is
\* the session's own, the session goes on to write it.
Recv(s) ==
    /\ Live(s)
    /\ pc[s] = "select"
    /\ SelectTakes(s, "recv")
    /\ next[s] < TailPos
    /\ IF IsLagged(next[s], TailPos)
       THEN Teardown(s, "lagged")
       ELSE /\ next' = [next EXCEPT ![s] = AdvanceNext(@)]
            /\ IF ShouldWrite(addr[s], RecvValue(next[s]).addr)
               THEN /\ pc' = [pc EXCEPT ![s] = "write"]
                    /\ got' = [got EXCEPT ![s] = RecvValue(next[s])]
               ELSE UNCHANGED <<pc, got>>
            /\ acc' = [acc EXCEPT ![s] = <<>>]
            /\ line' = [line EXCEPT ![s] = <<>>]
            /\ UNCHANGED <<status, endAt, wpos, sockIn, cliOpen>>
    /\ UNCHANGED <<addr, backlog, ready, written, log, sent, subAt, serving>>

\* What the socket of s carries after k more bytes of got[s] went out: the
\* first of them open a new record, the later ones extend it.
Emitted(s, k) ==
    LET part == [idx |-> got[s].idx,
                 line |-> SubSeq(got[s].line, 1, wpos[s] + k),
                 addr |-> got[s].addr]
    IN IF wpos[s] = 0
       THEN Append(written[s], part)
       ELSE [written[s] EXCEPT ![Len(written[s])] = part]

\* One poll_write inside write_all takes k bytes, fewer than what is left
\* of the message; write_all stays pending.
WritePart(s, k) ==
    /\ Live(s)
    /\ pc[s] = "write"
    /\ k >= 1
    /\ wpos[s] + k < Len(got[s].line)
    /\ written' = [written EXCEPT ![s] = Emitted(s, k)]
    /\ wpos' = [wpos EXCEPT ![s] = @ + k]
    /\ UNCHANGED <<status, addr, backlog, ready, pc, next, got, line, acc, sockIn, cliOpen, log,
                   sent, subAt, endAt, serving>>

\* writer.write_all(&msg.as_bytes()) completes: the rest of the message is
\* written.
WriteOk(s) ==
    /\ Live(s)
    /\ pc[s] = "write"
    /\ written' = [written EXCEPT ![s] = Emitted(s, Len(got[s].line) - wpos[s])]
    /\ wpos' = [wpos EXCEPT ![s] = 0]
    /\ pc' = [pc EXCEPT ![s] = "select"]
    /\ got' = [got EXCEPT ![s] = NoMsg]
    /\ UNCHANGED <<status, addr, backlog, ready, next, line, acc, sockIn, cliOpen, log, sent, subAt,
                   endAt, serving>>

\* write_all fails on a broken connection, with what it had written so far
\* on the socket; unwrap panics the task.
WriteErr(s) ==
    /\ Live(s)
    /\ pc[s] = "write"
    /\ ~cliOpen[s]
    /\ Teardown(s, "writeerr")
    /\ UNCHANGED <<addr, backlog, ready, written, log, sent, subAt, serving>>

\* ------------------------------------------------------------ specifications
RECURSIVE SumLen(_, _)
SumLen(f, S) ==
    IF S = {} THEN 0
    ELSE LET x == CHOOSE y \in S : TRUE IN Len(f[x]) + SumLen(f, S \ {x})

\* Bytes sent so far by all clients together.
BytesSent == SumLen(sent, Peers)

Session(s) ==
    \/ ReadPartial(s)
    \/ ReadLine(s)
    \/ ReadErr(s)
    \/ Recv(s)
    \/ \E k \in 1..MaxBytes : WritePart(s, k)
    \/ WriteOk(s)
    \/ WriteErr(s)

\* Two clients with an address each, bytes arriving one at a time; at most
\* one of the two closes its connection.
Next ==
    \/ \E s \in Duo : ClientConnect(s, s)
    \/ \E s \in Duo : Accept(s)
    \/ AcceptWait
    \/ AcceptErr
    \/ \E s \in Duo : RuntimeShutdown(s)
    \/ \E s \in Duo, c \in Chunks : BytesSent + Len(c) <= MaxBytes /\ ClientSend(s, c)
    \/ \E s \in Duo :
          /\ \A t \in Duo \ {s} : status[t] = "none" \/ cliOpen[t]
          /\ ClientClose(s)
    \/ \E s \in Duo : Session(s)

Spec == Init /\ [][Next]_vars

\* Lines published so far plus lines on their way to the server.
LinesSent == Len(log) + SumLen(sockIn, Peers)

\* Three connections sending whole empty lines, the third from the address
\* of the first.
NextTrio ==
    \/ \E s \in Peers : ClientConnect(s, TrioAddr[s])
    \/ \E s \in Peers : Accept(s)
    \/ AcceptWait
    \/ AcceptErr
    \/ \E s \in Peers : RuntimeShutdown(s)
    \/ \E s \in Peers : LinesSent < MaxTrioLines /\ ClientSend(s, <<NL>>)
    \/ \E s \in Peers : ClientClose(s)
    \/ \E s \in Peers : ReadLine(s) \/ ReadErr(s) \/ Recv(s) \/ WriteOk(s) \/ WriteErr(s)

SpecTrio == Init /\ [][NextTrio]_vars

\* The runtime keeps polling a woken task: a receive that stays possible is
\* taken, and a write the client keeps accepting completes.
FairSession(s) == WF_vars(Recv(s)) /\ WF_vars(WriteOk(s))

\* Once main has panicked block_on returns and the runtime is dropped:
\* every task that still runs is dropped.
FairShutdown == \A s \in Peers : WF_vars(RuntimeShutdown(s))

FairSpecTrio == SpecTrio /\ FairShutdown /\ \A s \in Peers : FairSession(s)

\* Client 1 talks in whole lines, at most one of them on its way to the
\* server; client 2 only listens; both stay connected.
NextLag ==
    \/ \E s \in Duo : ClientConnect(s, s)
    \/ \E s \in Duo : Accept(s)
    \/ AcceptWait
    \/ AcceptErr
    \/ \E s \in Duo : RuntimeShutdown(s)
    \/ Len(sent[1]) < MaxLagLines /\ sockIn[1] = <<>> /\ ClientSend(1, <<NL>>)
    \/ \E s \in Duo : ReadLine(s) \/ Recv(s) \/ WriteOk(s)

SpecLag == Init /\ [][NextLag]_vars

\* The runtime keeps polling the acceptor task: while a connection waits in
\* the listener's queue, accept returns.
FairAccept(s) == WF_vars(Accept(s))

FairAcceptTrio == SpecTrio /\ FairShutdown /\ \A s \in Peers : FairAccept(s)

\* One client, alone on the server, that talks in whole lines, at most one
\* of them on its way to the server, and stays connected.
NextSolo ==
    \/ ClientConnect(1, 1)
    \/ Accept(1)
    \/ AcceptWait
    \/ AcceptErr
    \/ RuntimeShutdown(1)
    \/ Len(sent[1]) < MaxLagLines /\ sockIn[1] = <<>> /\ ClientSend(1, <<NL>>)
    \/ ReadLine(1) \/ Recv(1)

SpecSolo == Init /\ [][NextSolo]_vars

\* A select branch that is ready again and again is the one picked at some
\* iteration (random polling order), and a write the client keeps accepting
\* completes.
FairSelect(s) == SF_vars(ReadLine(s)) /\ SF_vars(Recv(s)) /\ WF_vars(WriteOk(s))

FairSpecSolo == SpecSolo /\ FairShutdown /\ FairSelect(1)

\* Client 1 talks in whole lines; clients 2 and 3, from addresses of their
\* own, only listen; all stay connected.
NextFan ==
    \/ \E s \in Peers : ClientConnect(s, s)
    \/ \E s \in Peers : Accept(s)
    \/ AcceptWait
    \/ AcceptErr
    \/ \E s \in Peers : RuntimeShutdown(s)
    \/ Len(sent[1]) < MaxFanLines /\ ClientSend(1, <<NL>>)
    \/ \E s \in Peers : ReadLine(s) \/ Recv(s) \/ WriteOk(s)

SpecFan == Init /\ [][NextFan]_vars

\* ------------------------------------------------------------ properties
\* The session task of s has run and is over.
Ended(s) == status[s] \notin {"none", "pending", "live"}

\* The indices, in send order, of the messages written to the socket of s.
WrittenIdx(s) == [k \in 1..Len(written[s]) |-> written[s][k].idx]

\* Message i has been written to the socket of s, all of it.
HasWritten(s, i) ==
    \E k \in 1..Len(written[s]) :
        written[s][k].idx = i /\ written[s][k].line = log[i].line

\* C1: no message whose origin address is a session's own address is ever
\* written to that session's socket.
SelfExclusion ==
    \A s \in Peers : \A k \in 1..Len(written[s]) : written[s][k].addr # addr[s]

\* A session has taken its own message from the channel and discarded it,
\* while another session has written that message to its socket.
SelfExclusionWitness ==
    \E s \in Peers, t \in Peers, i \in 1..Len(log) :
        /\ log[i].by = s
        /\ Live(s) /\ pc[s] = "select" /\ next[s] >= i
        /\ t # s /\ HasWritten(t, i)
        /\ ~HasWritten(s, i)

\* C7: a message sent before a session's Receiver was created is never
\* written to that session's socket.
NoRetroactiveDelivery ==
    \A s \in Peers : \A k \in 1..Len(written[s]) : written[s][k].idx > subAt[s]

\* A session that subscribed after a message was sent has written a later
\* message of the same sender.
NoRetroactiveWitness ==
    \E s \in Peers :
        /\ subAt[s] > 0
        /\ Len(written[s]) > 0
        /\ log[subAt[s]].addr = written[s][1].addr

IsPrefix(a, b) == Len(a) <= Len(b) /\ SubSeq(b, 1, Len(a)) = a

\* C8: what a session writes is a subsequence of the send order: indices
\* strictly increase and what is written at an index is, as far as it is
\* written, the message sent at that index.
FifoPerSubscriber ==
    \A s \in Peers :
        /\ \A j, k \in 1..Len(written[s]) : j < k => written[s][j].idx < written[s][k].idx
        /\ \A k \in 1..Len(written[s]) :
              /\ written[s][k].idx \in 1..Len(log)
              /\ IsPrefix(written[s][k].line, log[written[s][k].idx].line)
              /\ written[s][k].addr = log[written[s][k].idx].addr

\* A session has written two messages with different contents.
FifoWitness ==
    \E s \in Peers :
        /\ Len(written[s]) >= 2
        /\ HasWritten(s, written[s][1].idx) /\ HasWritten(s, written[s][2].idx)
        /\ written[s][1].line # written[s][2].line

\* C9: a zero-length read never publishes: no message is empty, a client
\* that sent nothing has no message on the channel, and for such a client
\* that closed its stream the read can complete by ending the session with
\* the channel untouched.
ZeroReadNoPublish ==
    /\ \A i \in 1..Len(log) : Len(log[i].line) > 0
    /\ \A s \in Peers : sent[s] = <<>> => \A i \in 1..Len(log) : log[i].by # s
    /\ \A s \in Peers :
          Live(s) /\ pc[s] = "select" /\ sent[s] = <<>> /\ ~cliOpen[s]
              => ENABLED (ReadLine(s) /\ status'[s] = "eof" /\ log' = log)

\* A client connected, sent nothing and closed; its session ended on the
\* zero-length read while another client's line is on the channel.
ZeroReadWitness ==
    \E s \in Peers :
        /\ status[s] = "eof"
        /\ sent[s] = <<>>
        /\ Len(log) > 0

\* The complete newline-terminated lines of the byte sequence b.
RECURSIVE CompleteLines(_)
CompleteLines(b) ==
    LET k == FindNL(b)
    IN IF k = 0 THEN <<>>
       ELSE <<SubSeq(b, 1, k)>> \o CompleteLines(SubSeq(b, k + 1, Len(b)))

IsTerminatedBy(m, s) == m.by = s /\ Len(m.line) > 0 /\ m.line[Len(m.line)] = NL

\* The newline-terminated messages session s published, in order.
PubLines(s) ==
    LET own == SelectSeq(log, LAMBDA m : IsTerminatedBy(m, s))
    IN [k \in 1..Len(own) |-> own[k].line]

\* C3: a session is never ended by lag (a lagged receive leaves it running).
LagNonFatal ==
    \A s \in Peers : status[s] # "lagged"

\* C4: the newline-terminated messages a session published are, in order and
\* byte for byte, the complete lines its client sent; once everything that
\* arrived has been read, each such line has been published exactly once.
VerbatimExactlyOnce ==
    \A s \in Peers :
        /\ IsPrefix(PubLines(s), CompleteLines(sent[s]))
        /\ Live(s) /\ sockIn[s] = <<>> => PubLines(s) = CompleteLines(sent[s])

\* C5: `line` is empty whenever a read starts, and any two consecutive
\* messages of one session are exactly the two consecutive lines its client
\* sent at that place.
NoConcatenation ==
    \A s \in Peers :
        /\ Live(s) /\ pc[s] = "select" => line[s] = <<>>
        /\ \A k \in 1..(Len(PubLines(s)) - 1) :
              /\ k + 1 <= Len(CompleteLines(sent[s]))
              /\ PubLines(s)[k] = CompleteLines(sent[s])[k]
              /\ PubLines(s)[k + 1] = CompleteLines(sent[s])[k + 1]

\* C10: a session that has a complete line to read can always take its
\* read-and-publish step, and the step adds the line to the channel.
PublishNeverBlocked ==
    \A s \in Peers :
        Live(s) /\ pc[s] = "select" /\ FindNL(sockIn[s]) > 0
            => ENABLED (ReadLine(s) /\ Len(log') = Len(log) + 1)

\* The talker has a line ready while the ring buffer is full, and the
\* listener is inside write_all, a full buffer behind.
PublishNeverBlockedWitness ==
    \E s \in Peers, t \in Peers :
        /\ s # t
        /\ Live(s) /\ pc[s] = "select" /\ FindNL(sockIn[s]) > 0
        /\ Live(t) /\ pc[t] = "write"
        /\ Len(log) - next[t] >= BufLen

\* Message i was sent by another session while the Receiver of t existed.
Owed(t, i) ==
    /\ i <= Len(log)
    /\ log[i].by # t
    /\ status[t] \notin {"none", "pending"}
    /\ subAt[t] < i

\* The connection of t did not stay open and writable (closed by the
\* client, broken, or closed by the end of the process), or t lagged.
Excused(t) ==
    \/ status[t] \in {"eof", "readerr", "writeerr", "lagged", "aborted"}
    \/ Live(t) /\ ~cliOpen[t]

\* C2: every message sent by another session while the Receiver of t existed
\* is eventually written to the socket of t, unless t lags or its connection
\* does not stay open and writable.
Delivery ==
    \A t \in Peers : \A i \in 1..MaxTrioLines :
        Owed(t, i) ~> (HasWritten(t, i) \/ Excused(t))

\* C6: the step that ends one session (its client closed, a read or write
\* of its socket failed, it lagged) changes nothing of any other session and
\* nothing on the channel, and a message sent after that by one of the
\* remaining sessions is still written by the others.
SessionIsolation ==
    /\ [][\A s \in Peers :
             Live(s) /\ status'[s] \notin {"live", "aborted"} =>
                 /\ log' = log
                 /\ \A t \in Peers \ {s} :
                       /\ status'[t] = status[t]
                       /\ pc'[t] = pc[t]
                       /\ next'[t] = next[t]
                       /\ got'[t] = got[t]
                       /\ wpos'[t] = wpos[t]
                       /\ acc'[t] = acc[t]
                       /\ sockIn'[t] = sockIn[t]
                       /\ cliOpen'[t] = cliOpen[t]
                       /\ written'[t] = written[t]]_vars
    /\ \A t \in Peers : \A i \in 1..MaxTrioLines :
          (Owed(t, i) /\ \E a \in Peers : Ended(a) /\ endAt[a] < i)
              ~> (HasWritten(t, i) \/ Excused(t))

\* C11: a session leaves its loop only on a zero-length read or on a
\* failed read or write of its own socket (a task cut off by the end of the
\* process has not left its loop).
ExitOnlyByOwnSocket ==
    \A s \in Peers :
        Ended(s) => status[s] \in {"eof", "readerr", "writeerr", "aborted"}

\* C12: a publish never fails: no session ends on a send error, a running
\* session always finds a Receiver on the channel (its own at least, also
\* when it is alone and main is gone), and with a complete line to read its
\* read-and-publish step can be taken and leaves it running.
PublishNeverFails ==
    /\ \A s \in Peers : status[s] # "senderr"
    /\ \A s \in Peers : Live(s) => ReceiverCount >= 1
    /\ \A s \in Peers :
          Live(s) /\ pc[s] = "select" /\ FindNL(sockIn[s]) > 0 /\ Utf8Valid(ReadBytes(s))
              => ENABLED (ReadLine(s) /\ status'[s] = "live" /\ Len(log') = Len(log) + 1)

\* Main has panicked and dropped its Receiver; a session that has published
\* before is the only one running, its own Receiver the only one left, and
\* it has a complete line to publish.
PublishNeverFailsWitness ==
    \E s \in Peers :
        /\ ~serving
        /\ Live(s) /\ pc[s] = "select"
        /\ \A t \in Peers \ {s} : ~Live(t)
        /\ ReceiverCount = 1
        /\ FindNL(sockIn[s]) > 0 /\ Utf8Valid(ReadBytes(s))
        /\ \E i \in 1..Len(log) : log[i].by = s

\* C13: a Receiver at most Capacity values behind takes the next value, with
\* no lagged outcome; a session ends on lag only when more than Capacity
\* values were sent since its last receive.
RetentionWindow ==
    /\ [](\A s \in Peers :
            Live(s) /\ pc[s] = "select" /\ next[s] < TailPos /\ TailPos - next[s] <= Capacity
                => ENABLED (Recv(s) /\ status'[s] = "live" /\ next'[s] = next[s] + 1))
    /\ [][\A s \in Peers :
            Live(s) /\ status'[s] = "lagged" => TailPos - next[s] > Capacity]_vars

\* One session has ended on lag while another, exactly Capacity values
\* behind, has written what it took so far.
RetentionWindowWitness ==
    \E s \in Peers, t \in Peers :
        /\ status[s] = "lagged"
        /\ Live(t) /\ pc[t] = "select"
        /\ TailPos - next[t] = Capacity
        /\ Len(written[t]) > 0
        /\ \A k \in 1..Len(written[t]) : written[t][k].idx = subAt[t] + k

\* C14 as stated: once a session has ended its Receiver is gone, nothing
\* more is written to its socket and no message with its address is sent
\* from then on.
TeardownSilencesAddress ==
    /\ \A s \in Peers : Ended(s) => next[s] = 0 /\ got[s] = NoMsg
    /\ \A s \in Peers :
          Ended(s) => \A i \in 1..Len(log) : i > endAt[s] => log[i].addr # addr[s]

\* C14: once a session has ended it stays ended, its Receiver is gone, it
\* sends nothing more and nothing more is written to its socket (another
\* session of the same address may send).
TeardownFinal ==
    [][\A s \in Peers :
          Ended(s) =>
              /\ status'[s] = status[s]
              /\ written'[s] = written[s]
              /\ next'[s] = 0 /\ got'[s] = NoMsg
              /\ Len(log') > Len(log) => log'[Len(log')].by # s]_vars

\* A session has ended, and another session of the same address has sent a
\* message since.
TeardownFinalWitness ==
    \E s \in Peers, t \in Peers :
        /\ Ended(s) /\ t # s /\ addr[t] = addr[s]
        /\ \E i \in 1..Len(log) : i > endAt[s] /\ log[i].by = t

\* The k-th record of what s wrote is a whole message.
WholeAt(s, k) == written[s][k].line = log[written[s][k].idx].line

\* Session s is inside write_all, part of the message written.
MidWrite(s) == Live(s) /\ pc[s] = "write" /\ wpos[s] > 0

\* C17 as stated: every message written to a session's socket (a write
\* still in progress or cut off by the end of the process aside) is,
\* unaltered, a message sent earlier by another session, and no sent message
\* is written twice to the same socket.
AtMostOnceUnaltered ==
    \A s \in Peers :
        /\ \A k \in 1..Len(written[s]) :
              /\ written[s][k].idx \in 1..Len(log)
              /\ log[written[s][k].idx].by # s
              /\ \/ WholeAt(s, k)
                 \/ k = Len(written[s]) /\ (MidWrite(s) \/ status[s] = "aborted")
        /\ \A j, k \in 1..Len(written[s]) :
              written[s][j].idx = written[s][k].idx => j = k

\* C17: what is written to a session's socket for a message is a prefix of
\* a message sent earlier by another session, the whole of it unless it is
\* the last the session wrote and the write is in progress or was cut off
\* by a write error or the end of the process; no sent message is written
\* twice to the same socket.
AtMostOncePrefix ==
    \A s \in Peers :
        /\ \A k \in 1..Len(written[s]) :
              /\ written[s][k].idx \in 1..Len(log)
              /\ log[written[s][k].idx].by # s
              /\ IsPrefix(written[s][k].line, log[written[s][k].idx].line)
              /\ Len(written[s][k].line) > 0
              /\ \/ WholeAt(s, k)
                 \/ /\ k = Len(written[s])
                    /\ MidWrite(s) \/ status[s] \in {"writeerr", "aborted"}
        /\ \A j, k \in 1..Len(written[s]) :
              written[s][j].idx = written[s][k].idx => j = k

\* A session has written one message whole, and its write of the next one
\* failed with part of that message on the socket.
AtMostOnceWitness ==
    \E s \in Peers :
        /\ status[s] = "writeerr"
        /\ Len(written[s]) >= 2
        /\ WholeAt(s, 1)
        /\ ~WholeAt(s, 2)

\* C15: the acceptor never waits on a session: a connection waiting to be
\* accepted can be accepted in every state, whatever the sessions do, and
\* is eventually accepted.
AcceptorNeverWaits ==
    /\ [](backlog # <<>> => ENABLED Accept(Head(backlog)))
    /\ \A s \in Peers : (status[s] = "pending") ~> (status[s] # "pending")

\* The number of messages session s has sent.
PubCount(s) == Cardinality({i \in 1..Len(log) : log[i].by = s})

\* The session of s ended on its own socket or with the process.
EndedBySocket(s) == status[s] \in {"eof", "readerr", "writeerr", "aborted"}

\* C16: neither select branch starves the other: with a message waiting in
\* its Receiver a session can still read and publish a complete line, and
\* a complete line that waits on its socket is eventually read and
\* published; with a complete line waiting on its socket it can still take
\* the message, and a message that waits in its Receiver is eventually
\* taken (unless the connection or the process ends).
NoBranchStarves ==
    /\ [](\A s \in Peers :
            Live(s) /\ pc[s] = "select" =>
                /\ FindNL(sockIn[s]) > 0 => ENABLED ReadLine(s)
                /\ next[s] < TailPos => ENABLED Recv(s))
    /\ \A s \in Peers, k \in 0..MaxLagLines :
          (Live(s) /\ FindNL(sockIn[s]) > 0 /\ PubCount(s) = k)
              ~> (EndedBySocket(s) \/ PubCount(s) > k)
    /\ \A s \in Peers, n \in 0..MaxLagLines :
          (Live(s) /\ next[s] = n /\ n < TailPos)
              ~> (EndedBySocket(s) \/ (Live(s) /\ next[s] > n))

\* C18: two messages written to the sockets of two sessions are written in
\* the same relative order to both.
OrderAgreement ==
    \A b \in Peers, c \in Peers :
        \A j, k \in 1..Len(written[b]) : \A m, n \in 1..Len(written[c]) :
            /\ j < k
            /\ written[b][j].idx # written[b][k].idx
            /\ written[c][m].idx = written[b][j].idx
            /\ written[c][n].idx = written[b][k].idx
            => m < n

\* Two sessions that subscribed at different times have both written the
\* same two messages.
OrderAgreementWitness ==
    \E b \in Peers, c \in Peers :
        /\ b # c /\ subAt[b] # subAt[c]
        /\ \E i \in 1..Len(log), j \in 1..Len(log) :
              /\ i # j
              /\ HasWritten(b, i) /\ HasWritten(b, j)
              /\ HasWritten(c, i) /\ HasWritten(c, j)

====
